---- MODULE Spec2Model ----
(***************************************************************************)
(* bevy-midi-graph: the graph compiler GraphAssetLoader::load_source_      *)
(* recursive (src/asset/loader.rs) and the demo's control dispatcher       *)
(* check_intersections (examples/demo.rs).                                 *)
(*                                                                         *)
(* Spec      the compiler run against an asset server whose assets load    *)
(*           while the compiler is called again and again                  *)
(* SpecDemo  the demo's frame systems, the control channel and the node    *)
(*           that drains it                                                *)
(***************************************************************************)
EXTENDS Integers, Sequences, FiniteSets, TLC

VARIABLES
    description,   \* the SoundSource handed to load_source_recursive
    assets,        \* asset_server + the four Assets<..> stores: handle -> state
    result,        \* <<>> or <<r>>: what the latest load_source_recursive call returned
    \* examples/demo.rs
    phase,           \* the schedule of the running frame: "Update", then "PostUpdate"
    app,             \* "running", or "panicked" once a system has panicked
    panic_msg,       \* what the panic printed
    load_state,      \* server.get_load_state(loading.0.id()) of demo/graph.ron
    graph_did_start, \* check_graph_ready's Local<bool>
    intersection,    \* rapier_context.intersection_pair(player, sensor)
    current_anchor,  \* check_intersections' Local<u32>
    event_channel,   \* audio_context.event_channel: the messages queued in it
    receiver_alive,  \* the node tree that drains the channel is alive
    pending_seek,    \* the node: <<>> or <<a>>, the seek waiting for a boundary
    section,         \* the node: the anchor it plays from
    since_boundary,  \* the anchors of the seeks the node got since its last boundary
    last_burst,      \* since_boundary as the last boundary found it
    last_sent,       \* the anchor of the latest message the channel accepted
    frame_sent       \* the messages check_intersections sent in its latest run, and
                     \* the current_anchor and desired_track it started from

compileVars == <<description, assets, result>>
demoVars == <<phase, app, panic_msg, load_state, graph_did_start, intersection,
              current_anchor, event_channel, receiver_alive, pending_seek, section,
              since_boundary, last_burst, last_sent, frame_sent>>
vars == <<compileVars, demoVars>>

(***************************************************************************)
(* Bounds of the model.                                                    *)
(***************************************************************************)
MaxSources == 3    \* sources of a Combiner in the generated descriptions
MaxChannels == 2   \* entries of a Midi channel map in the generated descriptions
MaxRanges == 2     \* ranges of a Font in the generated descriptions
ChannelCapacity == 2  \* messages the control channel holds
MaxBurst == 2      \* seeks the node takes in between two boundaries

(***************************************************************************)
(* Constants of examples/demo.rs.                                          *)
(***************************************************************************)
MIDI_NODE_ID == 101
DEFAULT_ANCHOR == 0
ENTER_TENSION_ANCHOR == 1

(***************************************************************************)
(* SoundSource values.  Every variant is a record of the same shape; the   *)
(* fields a variant does not have stay at their defaults.                  *)
(*   chans        Midi: the channel numbers, in the order channels.iter()  *)
(*                yields the entries; kids[i] is the source of chans[i]    *)
(*   lower/upper  Font Ranges: range.lower / range.upper of ranges[i];     *)
(*                kids[i] is range.source                                  *)
(***************************************************************************)
Source(kind, id) ==
    [kind |-> kind, node_id |-> id, path |-> "", index |-> 0, amp |-> 1,
     chans |-> <<>>, lower |-> <<>>, upper |-> <<>>, kids |-> <<>>]

\* The amplitudes an oscillator is meant for (1: full scale).
LegalAmplitudes == {0, 1}

FileKinds == {"Midi", "Sf2FilePath", "SampleFilePath", "OneShotFilePath"}
OscKinds == {"SquareWave", "TriangleWave", "SawtoothWave", "LfsrNoise"}

\* The Assets<T> store a file-backed variant reads.
StoreOf(kind) ==
    CASE kind = "Midi" -> "midi_assets"
      [] kind = "Sf2FilePath" -> "sf2_assets"
      [] kind = "SampleFilePath" -> "loop_assets"
      [] kind = "OneShotFilePath" -> "one_shot_assets"

\* asset_server.load(path) for a store: the typed handle.
HandleOf(src) == <<StoreOf(src.kind), src.path>>

RECURSIVE HandlesIn(_)
HandlesIn(src) ==
    (IF src.kind \in FileKinds THEN {HandleOf(src)} ELSE {})
    \cup UNION {HandlesIn(src.kids[i]) : i \in DOMAIN src.kids}

(***************************************************************************)
(* The asset server.  A handle is Unrequested until somebody calls         *)
(* asset_server.load, then Loading, then Failed or resident in its store.  *)
(* A resident asset's bytes are well-formed ("Loaded"), rejected by the    *)
(* util::*_from_bytes parser ("Corrupt"), or, for a MIDI file, parsed but  *)
(* rejected by midi_builder.build() ("Unbuildable").                       *)
(***************************************************************************)
ResidentStates == {"Loaded", "Corrupt", "Unbuildable"}

\* self.<store>.get(handle.id()) is Some
Resident(A, h) == A[h] \in ResidentStates

(***************************************************************************)
(* Results.  An event log records, in order, what a call did: which arm    *)
(* was entered, which load it issued, which channel and node it made,      *)
(* where it failed.                                                        *)
(***************************************************************************)
Ev(e, src) ==
    [ev |-> e, id |-> src.node_id,
     store |-> IF e = "load" THEN StoreOf(src.kind) ELSE "",
     path |-> IF e = "load" THEN src.path ELSE ""]

\* Err(..) returned from the arm of node id
Failure(text, src, log) ==
    [ok |-> FALSE, channels |-> <<>>, node |-> <<>>,
     err |-> <<[text |-> text, path |-> src.path, at |-> src.node_id]>>,
     log |-> log \o <<Ev("error", src)>>]

\* the ? operator on a callee's Err: returned as it is
Propagate(r, log) == [r EXCEPT !.log = log \o r.log]

\* Ok((event_channels, consumer))
Success(chs, src, inner, log) ==
    [ok |-> TRUE, channels |-> chs,
     node |-> <<[kind |-> src.kind, node_id |-> src.node_id, inner |-> inner]>>,
     err |-> <<>>, log |-> log \o <<Ev("built", src)>>]

\* The accumulator of a loop over children: channels and nodes so far.
Acc(log) == [ok |-> TRUE, channels |-> <<>>, node |-> <<>>, err |-> <<>>, log |-> log]

\* font_builder.add_range(note_range, source) returns Err
RangeRejected(lo, hi) == lo > hi

RECURSIVE load_source_recursive(_, _), load_each(_, _, _), load_ranges(_, _, _, _),
          load_channels(_, _, _, _)

\* for (channel, source) in channels.iter() { let (channels, font) =
\*   self.load_source_recursive(source)?; event_channels.extend(channels);
\*   midi_builder = midi_builder.add_channel_source(*channel, font); }
load_channels(src, i, A, acc) ==
    IF i > Len(src.kids) THEN acc
    ELSE LET r == load_source_recursive(src.kids[i], A)
         IN  IF ~r.ok THEN Propagate(r, acc.log)
             ELSE load_channels(src, i + 1, A,
                     [acc EXCEPT !.channels = acc.channels \o r.channels,
                                 !.node = acc.node \o r.node,
                                 !.log = acc.log \o r.log])

\* load_each, had a failed source been left out instead of aborting the call.
load_each_SkipFailed(kids, A, acc) ==
    IF kids = <<>> THEN acc
    ELSE LET r == load_source_recursive(Head(kids), A)
         IN  IF ~r.ok THEN load_each(Tail(kids), A, [acc EXCEPT !.log = acc.log \o r.log])
             ELSE load_each(Tail(kids), A,
                     [acc EXCEPT !.channels = acc.channels \o r.channels,
                                 !.node = acc.node \o r.node,
                                 !.log = acc.log \o r.log])

\* for source in sources.iter() { let (channels, source) = self.load_source_recursive(source)?;
\*   event_channels.extend(channels); inner_sources.push(source); }
load_each(kids, A, acc) ==
    IF kids = <<>> THEN acc
    ELSE LET r == load_source_recursive(Head(kids), A)
         IN  IF ~r.ok THEN Propagate(r, acc.log)
             ELSE load_each(Tail(kids), A,
                     [acc EXCEPT !.channels = acc.channels \o r.channels,
                                 !.node = acc.node \o r.node,
                                 !.log = acc.log \o r.log])

\* for range in ranges { ...load_source_recursive(&range.source)?; all_channels.extend(channels);
\*   font_builder = font_builder.add_range(note_range, source)?; }
load_ranges(src, i, A, acc) ==
    IF i > Len(src.kids) THEN acc
    ELSE LET r == load_source_recursive(src.kids[i], A)
         IN  IF ~r.ok THEN Propagate(r, acc.log)
             ELSE IF RangeRejected(src.lower[i], src.upper[i])
                  THEN Failure("add_range", src, acc.log \o r.log)
             ELSE load_ranges(src, i + 1, A,
                     [acc EXCEPT !.channels = acc.channels \o r.channels,
                                 !.node = acc.node \o r.node,
                                 !.log = acc.log \o r.log])

\* MidiArm, had the MIDI-sequence node been given a Control Channel of its own.
MidiArm_OwnChannel(src, A) ==
    LET h == HandleOf(src)
        log == <<Ev("enter", src), Ev("load", src)>>
    IN  IF ~Resident(A, h) THEN Failure("File not loaded: ", src, log)
        ELSE IF A[h] = "Corrupt"
             THEN Failure("midi_builder_from_bytes", src, log)
        ELSE LET k == load_channels(src, 1, A, Acc(log))
             IN  IF ~k.ok THEN k
                 ELSE IF A[h] = "Unbuildable"
                      THEN Failure("midi_builder.build", src, k.log)
                 ELSE Success(Append(k.channels, src.node_id), src, k.node,
                              k.log \o <<Ev("channel", src)>>)

\* MidiArm, had it compiled the channel sources before asking for its own file.
MidiArm_ChannelsFirst(src, A) ==
    LET h == HandleOf(src)
        k == load_channels(src, 1, A, Acc(<<Ev("enter", src)>>))
    IN  IF ~k.ok THEN k
        ELSE IF ~Resident(A, h)
             THEN Failure("File not loaded: ", src, k.log \o <<Ev("load", src)>>)
        ELSE IF A[h] = "Corrupt"
             THEN Failure("midi_builder_from_bytes", src, k.log \o <<Ev("load", src)>>)
        ELSE IF A[h] = "Unbuildable"
             THEN Failure("midi_builder.build", src, k.log \o <<Ev("load", src)>>)
        ELSE Success(k.channels, src, k.node, k.log \o <<Ev("load", src)>>)

MidiArm(src, A) ==
    LET h == HandleOf(src)
        log == <<Ev("enter", src), Ev("load", src)>>
    IN  IF ~Resident(A, h) THEN Failure("File not loaded: ", src, log)
        ELSE IF A[h] = "Corrupt"
             THEN Failure("midi_builder_from_bytes", src, log)
        ELSE LET k == load_channels(src, 1, A, Acc(log))
             IN  IF ~k.ok THEN k
                 ELSE IF A[h] = "Unbuildable"
                      THEN Failure("midi_builder.build", src, k.log)
                 ELSE Success(k.channels, src, k.node, k.log)

\* EventReceiverArm, had it put its own channel in front of its child's channels.
EventReceiverArm_ChannelFirst(src, A) ==
    LET r == load_source_recursive(src.kids[1], A)
        log == <<Ev("enter", src)>>
    IN  IF ~r.ok THEN Propagate(r, log)
        ELSE Success(<<src.node_id>> \o r.channels, src, r.node,
                     log \o r.log \o <<Ev("channel", src)>>)

EventReceiverArm(src, A) ==
    LET r == load_source_recursive(src.kids[1], A)
        log == <<Ev("enter", src)>>
    IN  IF ~r.ok THEN Propagate(r, log)
        ELSE Success(Append(r.channels, src.node_id), src, r.node,
                     log \o r.log \o <<Ev("channel", src)>>)

FontRangesArm(src, A) ==
    LET k == load_ranges(src, 1, A, Acc(<<Ev("enter", src)>>))
    IN  IF ~k.ok THEN k
        ELSE Success(k.channels, src, k.node, k.log)

\* The instruments a well-formed soundfont of the model holds.
FontInstruments == {0}

Sf2FilePathArm(src, A) ==
    LET h == HandleOf(src)
        log == <<Ev("enter", src), Ev("load", src)>>
    IN  IF ~Resident(A, h)
        THEN Failure("Soundfont file not loaded: ", src, log)
        ELSE IF A[h] # "Loaded" \/ src.index \notin FontInstruments
             THEN Failure("soundfont_from_bytes", src, log)
        ELSE Success(<<>>, src, <<>>, log)

\* SquareWaveArm, had the constructor checked the amplitude.
SquareWaveArm_Validating(src, A) ==
    IF src.amp \in LegalAmplitudes
    THEN Success(<<>>, src, <<>>, <<Ev("enter", src)>>)
    ELSE Failure("amplitude out of range", src, <<Ev("enter", src)>>)

SquareWaveArm(src, A) ==
    Success(<<>>, src, <<>>, <<Ev("enter", src)>>)

TriangleWaveArm(src, A) ==
    Success(<<>>, src, <<>>, <<Ev("enter", src)>>)

SawtoothWaveArm(src, A) ==
    Success(<<>>, src, <<>>, <<Ev("enter", src)>>)

LfsrNoiseArm(src, A) ==
    Success(<<>>, src, <<>>, <<Ev("enter", src)>>)

SampleFilePathArm(src, A) ==
    LET h == HandleOf(src)
        log == <<Ev("enter", src), Ev("load", src)>>
    IN  IF ~Resident(A, h)
        THEN Failure("Loop file not loaded: ", src, log)
        ELSE IF A[h] # "Loaded"
             THEN Failure("wav_from_bytes", src, log)
        ELSE Success(<<>>, src, <<>>, log)

OneShotFilePathArm(src, A) ==
    LET h == HandleOf(src)
        log == <<Ev("enter", src), Ev("load", src)>>
    IN  IF ~Resident(A, h)
        THEN Failure("One shot file not loaded: ", src, log)
        ELSE IF A[h] # "Loaded"
             THEN Failure("one_shot_from_bytes", src, log)
        ELSE Success(<<>>, src, <<>>, log)

EnvelopeArm(src, A) ==
    LET r == load_source_recursive(src.kids[1], A)
        log == <<Ev("enter", src)>>
    IN  IF ~r.ok THEN Propagate(r, log)
        ELSE Success(r.channels, src, r.node, log \o r.log)

\* CombinerArm, had it refused a combiner with no sources.
CombinerArm_RejectsEmpty(src, A) ==
    LET k == load_each(src.kids, A, Acc(<<Ev("enter", src)>>))
    IN  IF ~k.ok THEN k
        ELSE IF src.kids = <<>> THEN Failure("empty combiner", src, k.log)
        ELSE Success(k.channels, src, k.node, k.log)

CombinerArm(src, A) ==
    LET k == load_each(src.kids, A, Acc(<<Ev("enter", src)>>))
    IN  IF ~k.ok THEN k
        ELSE Success(k.channels, src, k.node, k.log)

\* MixerArm, had it compiled both sources before looking at either result.
MixerArm_BothThenCheck(src, A) ==
    LET log == <<Ev("enter", src)>>
        r0 == load_source_recursive(src.kids[1], A)
        r1 == load_source_recursive(src.kids[2], A)
    IN  IF ~r1.ok THEN Propagate(r1, log \o r0.log)
        ELSE IF ~r0.ok THEN Propagate(r0, log \o r1.log)
        ELSE Success(r0.channels \o r1.channels, src,
                     r0.node \o r1.node, log \o r0.log \o r1.log)

MixerArm(src, A) ==
    LET log == <<Ev("enter", src)>>
        r0 == load_source_recursive(src.kids[1], A)
    IN  IF ~r0.ok THEN Propagate(r0, log)
        ELSE LET r1 == load_source_recursive(src.kids[2], A)
             IN  IF ~r1.ok THEN Propagate(r1, log \o r0.log)
                 ELSE Success(r0.channels \o r1.channels, src,
                              r0.node \o r1.node, log \o r0.log \o r1.log)

FaderArm(src, A) ==
    LET r == load_source_recursive(src.kids[1], A)
        log == <<Ev("enter", src)>>
    IN  IF ~r.ok THEN Propagate(r, log)
        ELSE Success(r.channels, src, r.node, log \o r.log)

load_source_recursive(src, A) ==
    CASE src.kind = "Midi" -> MidiArm(src, A)
      [] src.kind = "EventReceiver" -> EventReceiverArm(src, A)
      [] src.kind = "Font" -> FontRangesArm(src, A)
      [] src.kind = "Sf2FilePath" -> Sf2FilePathArm(src, A)
      [] src.kind = "SquareWave" -> SquareWaveArm(src, A)
      [] src.kind = "TriangleWave" -> TriangleWaveArm(src, A)
      [] src.kind = "SawtoothWave" -> SawtoothWaveArm(src, A)
      [] src.kind = "LfsrNoise" -> LfsrNoiseArm(src, A)
      [] src.kind = "SampleFilePath" -> SampleFilePathArm(src, A)
      [] src.kind = "OneShotFilePath" -> OneShotFilePathArm(src, A)
      [] src.kind = "Envelope" -> EnvelopeArm(src, A)
      [] src.kind = "Combiner" -> CombinerArm(src, A)
      [] src.kind = "Mixer" -> MixerArm(src, A)
      [] src.kind = "Fader" -> FaderArm(src, A)

(***************************************************************************)
(* The descriptions the compiler is run on.  A node's identifier is its    *)
(* position in the tree (the root is 1, the i-th child of c is 10c + i),   *)
(* so identifiers are unique, as the caller is expected to keep them.      *)
(***************************************************************************)
Paths == {"a", "b"}
Amplitudes == {1, 2}          \* 1: full scale, 2: beyond full scale
Ranges == {<<0, 1>>, <<1, 0>>}   \* <<lower, upper>>; the second is malformed

RECURSIVE SeqsOf(_, _)
\* the sequences of length n over S
SeqsOf(S, n) == IF n = 0 THEN {<<>>} ELSE {Append(s, x) : s \in SeqsOf(S, n - 1), x \in S}

SeqsUpTo(S, lo, hi) == UNION {SeqsOf(S, n) : n \in lo..hi}

Leaf(kind) == Source(kind, 0)
Unary(kind, X) == {[Source(kind, 0) EXCEPT !.kids = <<x>>] : x \in X}
Nary(kind, KK) == {[Source(kind, 0) EXCEPT !.kids = kk] : kk \in KK}

Oscillators == {[Leaf(k) EXCEPT !.amp = a] : k \in OscKinds, a \in Amplitudes}
OneShots == {[Leaf("OneShotFilePath") EXCEPT !.path = p] : p \in Paths}
Samples == {[Leaf("SampleFilePath") EXCEPT !.path = "a"]}
Soundfonts == {[Leaf("Sf2FilePath") EXCEPT !.path = "a", !.index = i] : i \in {0, 1}}
AllLeaves == Oscillators \cup OneShots \cup Samples \cup Soundfonts

Wrappers == {"EventReceiver", "Envelope", "Fader"}
Wrapped == UNION {Unary(w, AllLeaves) : w \in Wrappers}

Square == [Leaf("SquareWave") EXCEPT !.amp = 1]
Plain == {Square} \cup OneShots
Simple == Plain \cup Unary("EventReceiver", Plain)
Tiny == {Square} \cup Unary("EventReceiver", {Square})

Combiners == Nary("Combiner", SeqsUpTo(Simple, 0, MaxSources))
Mixers == Nary("Mixer", SeqsOf(Simple, 2))
FontKids == {Square, [Leaf("OneShotFilePath") EXCEPT !.path = "a"]}
               \cup Unary("EventReceiver", {Square})
Fonts ==
    UNION {{[Source("Font", 0) EXCEPT !.kids = kk,
                                      !.lower = [i \in DOMAIN rr |-> rr[i][1]],
                                      !.upper = [i \in DOMAIN rr |-> rr[i][2]]] :
               kk \in SeqsOf(FontKids, n), rr \in SeqsOf(Ranges, n)} : n \in 0..MaxRanges}
MidiOver(KK) ==
    {[Source("Midi", 0) EXCEPT !.path = "a", !.kids = kk,
                               !.chans = [i \in DOMAIN kk |-> i - 1]] : kk \in KK}
Midis == MidiOver(SeqsUpTo(Simple, 0, MaxChannels))

Pairs == Nary("Combiner", SeqsOf(Tiny, 2)) \cup Nary("Mixer", SeqsOf(Tiny, 2))
             \cup MidiOver(SeqsOf(Tiny, 2))
Nested ==
    Unary("EventReceiver", Pairs \cup Mixers \cup Midis)
    \cup Unary("Envelope", Pairs) \cup Unary("Fader", Pairs)
    \cup Nary("Combiner", SeqsOf(Pairs \cup Tiny, 2))
    \cup Nary("Mixer", SeqsOf(Pairs \cup Tiny, 2))

Shapes == AllLeaves \cup Wrapped \cup Combiners \cup Mixers
              \cup Fonts \cup Midis \cup Nested

RECURSIVE Relabel(_, _)
Relabel(t, c) ==
    [t EXCEPT !.node_id = c,
              !.kids = [i \in DOMAIN t.kids |-> Relabel(t.kids[i], 10 * c + i)]]

Descriptions == {Relabel(t, 1) : t \in Shapes}

(***************************************************************************)
(* The compiler's specification.                                           *)
(***************************************************************************)
\* The demo before its first frame.
DemoStart ==
    /\ phase = "Update" /\ app = "running" /\ panic_msg = ""
    /\ load_state = "Loading" /\ graph_did_start = FALSE
    /\ intersection = "None" /\ current_anchor = 0
    /\ event_channel = <<>> /\ receiver_alive = FALSE
    /\ pending_seek = <<>> /\ section = DEFAULT_ANCHOR
    /\ since_boundary = <<>> /\ last_burst = <<>>
    /\ last_sent = DEFAULT_ANCHOR
    /\ frame_sent = [n |-> 0, from |-> 0, desired |-> 0]

Init ==
    /\ description \in Descriptions
    /\ assets = [h \in HandlesIn(description) |-> "Unrequested"]
    /\ result = <<>>
    /\ DemoStart

\* The handles a call passed to asset_server.load.
Requested(log) == {<<log[i].store, log[i].path>> : i \in {j \in DOMAIN log : log[j].ev = "load"}}

\* One call of load_source_recursive on the description.  asset_server.load starts
\* the loading of a handle nobody asked for before.
Compile ==
    LET r == load_source_recursive(description, assets)
    IN  /\ result' = <<r>>
        /\ assets' = [h \in DOMAIN assets |->
                         IF assets[h] = "Unrequested" /\ h \in Requested(r.log)
                         THEN "Loading" ELSE assets[h]]
        /\ UNCHANGED <<description, demoVars>>

\* Another system (the graph asset's own loader, a preloader) asks for the file.
BeginLoad(h) ==
    /\ assets[h] = "Unrequested"
    /\ assets' = [assets EXCEPT ![h] = "Loading"]
    /\ result' = <<>>
    /\ UNCHANGED <<description, demoVars>>

\* The asset's loader finishes: the bytes are in the store.
FinishLoad(h, bytes) ==
    /\ assets[h] = "Loading"
    /\ bytes = "Unbuildable" => h[1] = "midi_assets"
    /\ assets' = [assets EXCEPT ![h] = bytes]
    /\ result' = <<>>
    /\ UNCHANGED <<description, demoVars>>

\* The asset's loader fails (no such file, unreadable).
FailLoad(h) ==
    /\ assets[h] = "Loading"
    /\ assets' = [assets EXCEPT ![h] = "Failed"]
    /\ result' = <<>>
    /\ UNCHANGED <<description, demoVars>>

Next ==
    \/ Compile
    \/ \E h \in DOMAIN assets : BeginLoad(h)
    \/ \E h \in DOMAIN assets, bytes \in ResidentStates : FinishLoad(h, bytes)
    \/ \E h \in DOMAIN assets : FailLoad(h)

Spec == Init /\ [][Next]_vars

(***************************************************************************)
(* The demo: check_graph_ready (Update) and check_intersections            *)
(* (PostUpdate) of every frame, the control channel they send into, and    *)
(* the node that drains it.                                                *)
(***************************************************************************)
\* The graph of demo/graph.ron: a MIDI sequence under the node id the demo addresses.
DemoGraph ==
    [Source("Midi", MIDI_NODE_ID) EXCEPT !.path = "a", !.chans = <<0>>,
                                         !.kids = <<Source("SquareWave", 0)>>]

InitDemo ==
    /\ description = DemoGraph
    /\ assets = [h \in HandlesIn(DemoGraph) |-> "Unrequested"]
    /\ result = <<>>
    /\ DemoStart

\* NodeEvent::NodeControl { node_id, event: NodeControlEvent::SeekWhenIdeal { to_anchor: Some(a) } }
SeekWhenIdeal(a) == [node_id |-> MIDI_NODE_ID, event |-> "SeekWhenIdeal", to_anchor |-> <<a>>]

\* channel.try_send(msg): accepted, or an error at once; it never waits.
try_send(queue, alive, msg) ==
    IF ~alive THEN [ok |-> FALSE, queue |-> queue, err |-> "Disconnected"]
    ELSE IF Len(queue) >= ChannelCapacity THEN [ok |-> FALSE, queue |-> queue, err |-> "Full"]
    ELSE [ok |-> TRUE, queue |-> Append(queue, msg), err |-> ""]

Panic(msg) == app' = "panicked" /\ panic_msg' = msg

nodeVars == <<pending_seek, section, since_boundary, last_burst>>

\* The asset server finishes with demo/graph.ron, before the frame's systems run;
\* the files the graph names are resident by then, or still loading.
GraphLoadEnds(state, files) ==
    /\ app = "running" /\ phase = "Update" /\ load_state = "Loading"
    /\ load_state' = state
    /\ assets' = [h \in DOMAIN assets |-> files]
    /\ UNCHANGED <<description, result, phase, app, panic_msg, graph_did_start, intersection,
                   current_anchor, event_channel, receiver_alive, nodeVars, last_sent,
                   frame_sent>>

\* The physics step moves the player: the sensor's intersection pair changes.
PhysicsStep(pair) ==
    /\ app = "running" /\ phase = "Update" /\ intersection # pair
    /\ intersection' = pair
    /\ UNCHANGED <<compileVars, phase, app, panic_msg, load_state, graph_did_start,
                   current_anchor, event_channel, receiver_alive, nodeVars, last_sent,
                   frame_sent>>

\* mixer.swap_graph(&asset.config): the description is compiled and the new node
\* tree, with a fresh control channel, replaces the running one.
swap_graph ==
    LET r == load_source_recursive(description, assets)
    IN  IF r.ok
        THEN /\ receiver_alive' = TRUE /\ event_channel' = <<>>
             /\ pending_seek' = <<>> /\ section' = DEFAULT_ANCHOR
             /\ since_boundary' = <<>> /\ last_burst' = <<>>
             /\ UNCHANGED <<app, panic_msg>>
        ELSE /\ Panic(r.err[1].text)
             /\ UNCHANGED <<receiver_alive, event_channel, nodeVars>>

check_graph_ready ==
    /\ app = "running" /\ phase = "Update"
    /\ phase' = "PostUpdate"
    /\ IF graph_did_start
       THEN UNCHANGED <<app, panic_msg, graph_did_start, event_channel, receiver_alive, nodeVars>>
       ELSE CASE load_state = "Failed" ->
                   /\ Panic("Failed")
                   /\ UNCHANGED <<graph_did_start, event_channel, receiver_alive, nodeVars>>
              [] load_state = "Loaded" ->
                   /\ graph_did_start' = TRUE
                   /\ swap_graph
              [] OTHER ->
                   UNCHANGED <<app, panic_msg, graph_did_start, event_channel,
                               receiver_alive, nodeVars>>
    /\ UNCHANGED <<compileVars, load_state, intersection, current_anchor, last_sent, frame_sent>>

desired_track == IF intersection = "Some(true)" THEN ENTER_TENSION_ANCHOR ELSE DEFAULT_ANCHOR

\* graphs.get_mut(graph_id) is Some
GraphPresent == load_state = "Loaded"

\* check_intersections, had it dropped the error of a failed send.
check_intersections_DropsError ==
    /\ app = "running" /\ phase = "PostUpdate"
    /\ phase' = "Update"
    /\ IF current_anchor # desired_track
       THEN /\ current_anchor' = desired_track
            /\ IF GraphPresent
               THEN LET send == try_send(event_channel, receiver_alive,
                                         SeekWhenIdeal(desired_track))
                    IN  /\ event_channel' = send.queue
                        /\ last_sent' = IF send.ok THEN desired_track ELSE last_sent
                        /\ frame_sent' = [n |-> IF send.ok THEN 1 ELSE 0,
                                          from |-> current_anchor, desired |-> desired_track]
                        /\ UNCHANGED <<app, panic_msg>>
               ELSE /\ frame_sent' = [n |-> 0, from |-> current_anchor, desired |-> desired_track]
                    /\ UNCHANGED <<event_channel, last_sent, app, panic_msg>>
       ELSE /\ frame_sent' = [n |-> 0, from |-> current_anchor, desired |-> desired_track]
            /\ UNCHANGED <<current_anchor, event_channel, last_sent, app, panic_msg>>
    /\ UNCHANGED <<compileVars, load_state, graph_did_start, intersection, receiver_alive,
                   nodeVars>>

check_intersections ==
    /\ app = "running" /\ phase = "PostUpdate"
    /\ phase' = "Update"
    /\ IF current_anchor # desired_track
       THEN /\ current_anchor' = desired_track
            /\ IF GraphPresent
               THEN LET send == try_send(event_channel, receiver_alive,
                                         SeekWhenIdeal(desired_track))
                    IN  /\ event_channel' = send.queue
                        /\ last_sent' = IF send.ok THEN desired_track ELSE last_sent
                        /\ frame_sent' = [n |-> IF send.ok THEN 1 ELSE 0,
                                          from |-> current_anchor, desired |-> desired_track]
                        /\ IF send.ok THEN UNCHANGED <<app, panic_msg>> ELSE Panic(send.err)
               ELSE /\ frame_sent' = [n |-> 0, from |-> current_anchor, desired |-> desired_track]
                    /\ UNCHANGED <<event_channel, last_sent, app, panic_msg>>
       ELSE /\ frame_sent' = [n |-> 0, from |-> current_anchor, desired |-> desired_track]
            /\ UNCHANGED <<current_anchor, event_channel, last_sent, app, panic_msg>>
    /\ UNCHANGED <<compileVars, load_state, graph_did_start, intersection, receiver_alive,
                   nodeVars>>

\* The node on a seek-when-ideal, had it kept the request it already held.
on_seek_when_ideal_KeepsFirst(pending, a) == IF pending = <<>> THEN <<a>> ELSE pending

\* The node on a seek-when-ideal: the request replaces the one it holds.
on_seek_when_ideal(pending, a) == <<a>>

\* The node takes the next message of its channel, before a production cycle.
NodeReceives ==
    /\ app = "running" /\ receiver_alive
    /\ event_channel # <<>> /\ Len(since_boundary) < MaxBurst
    /\ LET msg == Head(event_channel)
       IN  /\ event_channel' = Tail(event_channel)
           /\ IF msg.node_id = MIDI_NODE_ID /\ msg.event = "SeekWhenIdeal"
                 /\ msg.to_anchor # <<>>
              THEN /\ pending_seek' = on_seek_when_ideal(pending_seek, msg.to_anchor[1])
                   /\ since_boundary' = Append(since_boundary, msg.to_anchor[1])
              ELSE UNCHANGED <<pending_seek, since_boundary>>
    /\ UNCHANGED <<compileVars, phase, app, panic_msg, load_state, graph_did_start,
                   intersection, current_anchor, receiver_alive, section, last_burst,
                   last_sent, frame_sent>>

\* The node reaches a boundary it holds safe: the seek it holds is applied.
NodeBoundary ==
    /\ app = "running" /\ receiver_alive /\ pending_seek # <<>>
    /\ section' = pending_seek[1]
    /\ pending_seek' = <<>>
    /\ last_burst' = since_boundary
    /\ since_boundary' = <<>>
    /\ UNCHANGED <<compileVars, phase, app, panic_msg, load_state, graph_did_start,
                   intersection, current_anchor, event_channel, receiver_alive, last_sent,
                   frame_sent>>

\* The audio stream ends and drops the node tree: the channel loses its receiver.
AudioStops ==
    /\ app = "running" /\ receiver_alive
    /\ receiver_alive' = FALSE
    /\ UNCHANGED <<compileVars, phase, app, panic_msg, load_state, graph_did_start,
                   intersection, current_anchor, event_channel, nodeVars, last_sent,
                   frame_sent>>

NextDemo ==
    \/ \E state \in {"Loaded", "Failed"}, files \in {"Loaded", "Loading"} :
          GraphLoadEnds(state, files)
    \/ \E pair \in {"None", "Some(false)", "Some(true)"} : PhysicsStep(pair)
    \/ check_graph_ready
    \/ check_intersections
    \/ NodeReceives
    \/ NodeBoundary
    \/ AudioStops

SpecDemo == InitDemo /\ [][NextDemo]_vars

(***************************************************************************)
(* What the properties speak of.                                           *)
(***************************************************************************)
Called == result # <<>>
R == result[1]

RECURSIVE Nodes(_)
\* every node of a description
Nodes(t) == {t} \cup UNION {Nodes(t.kids[i]) : i \in DOMAIN t.kids}

NodeAt(id) == CHOOSE n \in Nodes(description) : n.node_id = id
OfKind(K) == {n \in Nodes(description) : n.kind \in K}
Ids(S) == {n.node_id : n \in S}

Parent(id) == id \div 10
Slot(id) == id % 10

RECURSIVE IsAncestor(_, _)
\* node a lies strictly above node d
IsAncestor(a, d) == d > 1 /\ (Parent(d) = a \/ IsAncestor(a, Parent(d)))

Within(a, d) == a = d \/ IsAncestor(a, d)

\* d lies in the subtree of a sibling declared after n
UnderLaterSibling(n, d) ==
    \E y \in Ids(Nodes(description)) :
        /\ y > 1 /\ n > 1 /\ Parent(y) = Parent(n) /\ Slot(n) < Slot(y)
        /\ Within(y, d)

\* depth-first, left to right, a parent after its subtree
Precedes(a, b) ==
    \/ IsAncestor(b, a)
    \/ \E x \in Ids(Nodes(description)) : Within(x, a) /\ UnderLaterSibling(x, b)

Unresolved(n) == n.kind \in FileKinds /\ ~Resident(assets, HandleOf(n))

InDomain(n) ==
    /\ n.kind \in OscKinds => n.amp \in LegalAmplitudes
    /\ n.kind = "Font" => \A i \in DOMAIN n.kids : ~RangeRejected(n.lower[i], n.upper[i])

Positions(log, e) == {i \in DOMAIN log : log[i].ev = e}

(***************************************************************************)
(* C1.                                                                     *)
(***************************************************************************)
\* C1, as claimed: a successful compile returns as many Control Channels as the
\* description has event-receiver nodes plus MIDI-sequence nodes.
C1_ChannelPerReceiverAndMidi ==
    Called /\ R.ok =>
        Len(R.channels) = Cardinality(OfKind({"EventReceiver"})) + Cardinality(OfKind({"Midi"}))

\* C1, amended: a successful compile returns exactly one Control Channel per
\* event-receiver node, each tagged with its receiver, and none for any other
\* kind, a MIDI-sequence node included.
C1_ChannelPerReceiver ==
    Called /\ R.ok =>
        /\ Len(R.channels) = Cardinality(OfKind({"EventReceiver"}))
        /\ {R.channels[i] : i \in DOMAIN R.channels} = Ids(OfKind({"EventReceiver"}))

C1_Witness ==
    /\ Called /\ R.ok
    /\ description.kind = "Midi"
    /\ Cardinality(OfKind({"EventReceiver"})) = 2
    /\ Len(R.channels) = 2

C3_AllOrNothing ==
    Called /\ (\E n \in Nodes(description) : Unresolved(n)) =>
        ~R.ok /\ R.node = <<>> /\ R.channels = <<>> /\ R.err # <<>>

\* a receiver sibling had compiled (its channel existed) when a failed file aborted the call
C3_Witness ==
    /\ Called /\ ~R.ok
    /\ \E n \in Nodes(description) : Unresolved(n) /\ assets[HandleOf(n)] = "Failed"
    /\ Positions(R.log, "channel") # {}
    /\ R.channels = <<>>

(***************************************************************************)
(* C4.  The complete walk of a description, and where its faults lie.      *)
(***************************************************************************)
RECURSIVE Tour(_), KidsTour(_, _)
Tour(t) ==
    <<[ev |-> "enter", id |-> t.node_id, i |-> 0]>> \o KidsTour(t, 1)
        \o <<[ev |-> "exit", id |-> t.node_id, i |-> 0]>>
KidsTour(t, i) ==
    IF i > Len(t.kids) THEN <<>>
    ELSE Tour(t.kids[i])
         \o (IF t.kind = "Font" THEN <<[ev |-> "range", id |-> t.node_id, i |-> i]>> ELSE <<>>)
         \o KidsTour(t, i + 1)

\* the fault, if any, that lies at a step of the walk: "" for none
FaultAt(e) ==
    LET n == NodeAt(e.id)
    IN  IF e.ev = "enter" /\ n.kind \in FileKinds
        THEN IF Unresolved(n)
             THEN CASE n.kind = "Midi" -> "File not loaded: "
                    [] n.kind = "Sf2FilePath" -> "Soundfont file not loaded: "
                    [] n.kind = "SampleFilePath" -> "Loop file not loaded: "
                    [] n.kind = "OneShotFilePath" -> "One shot file not loaded: "
             ELSE CASE n.kind = "Midi" ->
                         IF assets[HandleOf(n)] = "Corrupt" THEN "midi_builder_from_bytes" ELSE ""
                    [] n.kind = "Sf2FilePath" ->
                         IF assets[HandleOf(n)] = "Corrupt" \/ n.index \notin FontInstruments
                         THEN "soundfont_from_bytes" ELSE ""
                    [] n.kind = "SampleFilePath" ->
                         IF assets[HandleOf(n)] = "Corrupt" THEN "wav_from_bytes" ELSE ""
                    [] n.kind = "OneShotFilePath" ->
                         IF assets[HandleOf(n)] = "Corrupt" THEN "one_shot_from_bytes" ELSE ""
        ELSE IF e.ev = "range" /\ RangeRejected(n.lower[e.i], n.upper[e.i]) THEN "add_range"
        ELSE IF e.ev = "exit" /\ n.kind = "Midi" /\ assets[HandleOf(n)] = "Unbuildable"
             THEN "midi_builder.build"
        ELSE ""

WalkFaults == {k \in DOMAIN Tour(description) : FaultAt(Tour(description)[k]) # ""}
FirstFault == CHOOSE k \in WalkFaults : \A m \in WalkFaults : k <= m

\* what a step of the walk leaves in the log when it is not the faulty one
Trace(e) ==
    LET n == NodeAt(e.id)
    IN  CASE e.ev = "enter" ->
               <<Ev("enter", n)>> \o (IF n.kind \in FileKinds THEN <<Ev("load", n)>> ELSE <<>>)
          [] e.ev = "range" -> <<>>
          [] e.ev = "exit" ->
               (IF n.kind = "EventReceiver" THEN <<Ev("channel", n)>> ELSE <<>>)
               \o <<Ev("built", n)>>

RECURSIVE WalkLog(_)
\* the log of the walk's first k steps, none of them faulty
WalkLog(k) == IF k = 0 THEN <<>> ELSE WalkLog(k - 1) \o Trace(Tour(description)[k])

\* C4: a failing call returns the error of the first fault of the depth-first
\* left-to-right walk, and did nothing after it: no later child entered, no later
\* load issued, no later channel made, no second error.
C4_FirstFaultOnly ==
    Called /\ ~R.ok =>
        /\ WalkFaults # {}
        /\ LET e == Tour(description)[FirstFault]
               n == NodeAt(e.id)
           IN  /\ R.err = <<[text |-> FaultAt(e), path |-> n.path, at |-> n.node_id]>>
               /\ R.log = WalkLog(FirstFault - 1)
                            \o (IF e.ev = "enter" THEN Trace(e) ELSE <<>>)
                            \o <<Ev("error", n)>>
        /\ R.channels = <<>> /\ R.node = <<>>

\* two faults in two different children: the earlier one is reported, the later never reached
C4_Witness ==
    /\ Called /\ ~R.ok
    /\ Cardinality({Tour(description)[k].id : k \in WalkFaults}) >= 2
    /\ \E k \in WalkFaults :
          /\ k > FirstFault
          /\ ~Within(Tour(description)[k].id, R.err[1].at)
          /\ ~Within(R.err[1].at, Tour(description)[k].id)
          /\ \A i \in DOMAIN R.log : R.log[i].id # Tour(description)[k].id

(***************************************************************************)
(* C5.                                                                     *)
(***************************************************************************)
\* C5: compiling a description with no file-backed node issues no request to the
\* asset server, and returns a Node when every constant is in its domain.
C5_NoFilesNoRequests ==
    Called /\ OfKind(FileKinds) = {} =>
        /\ Positions(R.log, "load") = {}
        /\ (\A n \in Nodes(description) : InDomain(n)) => R.ok /\ R.node # <<>>

C5_Witness ==
    /\ Called /\ R.ok /\ OfKind(FileKinds) = {}
    /\ description.kind = "Font" /\ Len(description.kids) = 2
    /\ OfKind({"EventReceiver"}) # {}
    /\ \A n \in Nodes(description) : InDomain(n)

(***************************************************************************)
(* C6.                                                                     *)
(***************************************************************************)
OutOfDomainOscillators == {n \in OfKind(OscKinds) : n.amp \notin LegalAmplitudes}

\* C6, as claimed: a description with a square, triangle, sawtooth or noise leaf
\* whose constant is out of domain compiles to a construction error, not a Node.
C6_OutOfDomainRejected ==
    Called /\ OutOfDomainOscillators # {} => ~R.ok /\ R.node = <<>>

\* C6, amended: the four oscillator arms have no error path.  No error a call
\* returns comes from such a leaf, whatever its constants, and a description made
\* of these leaves and of envelope, fader, mixer, combiner and event-receiver
\* nodes only always compiles to a Node.
C6_OscillatorsNeverFail ==
    Called =>
        /\ ~R.ok => NodeAt(R.err[1].at).kind \notin OscKinds
        /\ OfKind(FileKinds \cup {"Font"}) = {} => R.ok /\ R.node # <<>>

C6_Witness ==
    /\ Called /\ R.ok /\ R.node # <<>>
    /\ description.kind = "Envelope"
    /\ OutOfDomainOscillators # {}

(***************************************************************************)
(* C9.                                                                     *)
(***************************************************************************)
\* C9: loads are issued eagerly, in the order of the walk.  A file-backed node's
\* load follows its entry at once and comes before anything is done under a
\* later-declared sibling; a MIDI-sequence node's load comes before anything is
\* done under it, and nothing is done under it unless its file is resident and
\* parses.
C9_EagerOrderedLoads ==
    Called =>
        /\ \A i \in Positions(R.log, "enter") :
              NodeAt(R.log[i].id).kind \in FileKinds =>
                 i < Len(R.log) /\ R.log[i + 1] = Ev("load", NodeAt(R.log[i].id))
        /\ \A i \in Positions(R.log, "load") :
              /\ i > 1 /\ R.log[i - 1] = Ev("enter", NodeAt(R.log[i].id))
              /\ \A j \in DOMAIN R.log :
                    \/ UnderLaterSibling(R.log[i].id, R.log[j].id)
                    \/ IsAncestor(R.log[i].id, R.log[j].id)
                    => i < j
        /\ \A n \in OfKind({"Midi"}) :
              Unresolved(n) \/ assets[HandleOf(n)] = "Corrupt" =>
                 \A j \in DOMAIN R.log : ~IsAncestor(n.node_id, R.log[j].id)

\* the MIDI file is not there: the file of its channel source was never asked for
C9_Witness ==
    /\ Called
    /\ description.kind = "Midi" /\ Unresolved(description)
    /\ \E n \in OfKind({"OneShotFilePath"}) : assets[HandleOf(n)] = "Unrequested"
    /\ assets[HandleOf(description)] = "Loading"

(***************************************************************************)
(* C7.                                                                     *)
(***************************************************************************)
Last(q) == q[Len(q)]

\* C7: of the seek-when-ideal messages a node gets before its next boundary, the
\* latest is the one it holds, and the one the boundary applies, once; the
\* earlier ones are superseded.
C7_LastSeekWins ==
    /\ since_boundary = <<>> => pending_seek = <<>>
    /\ since_boundary # <<>> => pending_seek = <<Last(since_boundary)>>
    /\ last_burst # <<>> => section = Last(last_burst)

\* two seeks, to 1 and then to 0, before one boundary: the node plays from 0
C7_Witness ==
    /\ Len(last_burst) = 2 /\ last_burst[1] # last_burst[2]
    /\ section = last_burst[2]
    /\ pending_seek = <<>>

(***************************************************************************)
(* C8.                                                                     *)
(***************************************************************************)
\* C8: a send of the dispatcher is settled within its frame: the message is in
\* the channel when the frame ends, or the send failed (channel full or without
\* receiver) and the process has panicked, the channel left as it was.
C8_SendAcceptedOrPanics ==
    [][(phase = "PostUpdate" /\ phase' = "Update"
          /\ current_anchor # desired_track /\ GraphPresent)
       => \/ /\ app' = "running"
             /\ event_channel' = Append(event_channel, SeekWhenIdeal(desired_track))
          \/ /\ app' = "panicked" /\ panic_msg' \in {"Full", "Disconnected"}
             /\ event_channel' = event_channel
             /\ ~receiver_alive \/ Len(event_channel) >= ChannelCapacity]_vars

\* a send into a full channel: the demo panicked with the channel's error
C8_Witness ==
    /\ app = "panicked" /\ panic_msg = "Full"
    /\ Len(event_channel) = ChannelCapacity
    /\ frame_sent.n = 0 /\ frame_sent.from # frame_sent.desired

(***************************************************************************)
(* C10.                                                                    *)
(***************************************************************************)
\* C10: while no send has failed, the anchor of the latest message sent
\* (DEFAULT_ANCHOR before the first) is the recorded current_anchor, also after
\* frames in which graphs.get_mut found no graph; and a frame sends at most one
\* message, and only when the desired anchor differs from the recorded one.
C10_SentIsRecorded ==
    /\ (app = "running" \/ panic_msg \notin {"Full", "Disconnected"})
          => last_sent = current_anchor
    /\ frame_sent.n <= 1
    /\ frame_sent.n = 1 => frame_sent.from # frame_sent.desired

====
